---- MODULE Spec2Model ----
(***************************************************************************)
(* Model of demo-data-generator/regenerate_demo_data.py: the synthetic     *)
(* signal model (calculate_power, calculate_energy, calculate_water) and   *)
(* the two generators that drive it (generate_energy_statistics,           *)
(* generate_power_statistics).                                             *)
(*                                                                         *)
(* Numbers.  The program computes in binary floating point.  Here every    *)
(* quantity is a fixed-point integer: power in W * 1000, energy in         *)
(* kWh * 1000, water in L * 1000, the seasonal and solar factors in        *)
(* 1/10000 and the smoothing coefficients in percent.  Products and        *)
(* quotients are rounded to the nearest unit.                              *)
(* A datetime is the number of minutes since 2018-01-01 00:00 (a Monday,   *)
(* in a non-leap year) of the naive local clock the program uses.          *)
(***************************************************************************)
EXTENDS Integers, Sequences, FiniteSets, TLC

(***************************************************************************)
(* Bounds of the exploration.                                              *)
(***************************************************************************)
MaxHours == 8
MaxIntervals == 9
MaxRuns == 2

(***************************************************************************)
(* Arithmetic helpers.                                                     *)
(***************************************************************************)
Max(a, b) == IF a >= b THEN a ELSE b
Min(a, b) == IF a <= b THEN a ELSE b
Abs(a) == IF a >= 0 THEN a ELSE -a

\* x * num / den, rounded to the nearest unit (float product on the grid).
MulDiv(x, num, den) == (2 * x * num + den) \div (2 * den)

\* int(x / d) of Python: truncation toward zero.
TruncDiv(x, d) == IF x >= 0 THEN x \div d ELSE -((-x) \div d)

(***************************************************************************)
(* datetime fields.                                                        *)
(***************************************************************************)
MinutesPerHour == 60
MinutesPerDay == 24 * 60
DaysPerYear == 365

DtHour(dt) == (dt % MinutesPerDay) \div MinutesPerHour
DtMinute(dt) == dt % MinutesPerHour
DayOfYear(dt) == ((dt \div MinutesPerDay) % DaysPerYear) + 1
\* datetime.weekday(): Monday is 0.  Day 0 of the model is a Monday.
DtWeekday(dt) == (dt \div MinutesPerDay) % 7

MonthEnds == <<31, 59, 90, 120, 151, 181, 212, 243, 273, 304, 334, 365>>
DtMonth(dt) == CHOOSE m \in 1..12 :
                  /\ DayOfYear(dt) <= MonthEnds[m]
                  /\ \A k \in 1..(m - 1) : DayOfYear(dt) > MonthEnds[k]

\* datetime.timestamp(): seconds; the model's epoch is its day 0, and the
\* local clock has a fixed offset (no daylight-saving jumps).
Timestamp(dt) == dt * 60

(***************************************************************************)
(* math.sin and math.exp, tabulated in 1/10000.                            *)
(* SinTable[d] = sin(2 * pi * (d - 80) / 365) for the day of the year d;   *)
(* ExpTable[k] = exp(-((hour - 12.5) ** 2) / 18) at hour = (k - 1) / 12,   *)
(* one entry for each 5 minutes of the day.                                *)
(***************************************************************************)
SinTable ==
    <<
       -9778, -9741, -9701, -9657, -9611, -9562, -9511, -9456, -9399, -9338, -9275, -9210,
       -9141, -9070, -8996, -8920, -8841, -8759, -8675, -8588, -8498, -8406, -8312, -8215,
       -8115, -8014, -7909, -7803, -7694, -7583, -7470, -7354, -7236, -7117, -6995, -6871,
       -6744, -6616, -6486, -6354, -6220, -6085, -5947, -5808, -5667, -5524, -5380, -5234,
       -5087, -4938, -4787, -4636, -4482, -4328, -4172, -4015, -3857, -3697, -3537, -3375,
       -3213, -3049, -2885, -2720, -2554, -2387, -2219, -2051, -1882, -1713, -1543, -1373,
       -1202, -1031, -860, -688, -516, -344, -172, 0, 172, 344, 516, 688,
       860, 1031, 1202, 1373, 1543, 1713, 1882, 2051, 2219, 2387, 2554, 2720,
       2885, 3049, 3213, 3375, 3537, 3697, 3857, 4015, 4172, 4328, 4482, 4636,
       4787, 4938, 5087, 5234, 5380, 5524, 5667, 5808, 5947, 6085, 6220, 6354,
       6486, 6616, 6744, 6871, 6995, 7117, 7236, 7354, 7470, 7583, 7694, 7803,
       7909, 8014, 8115, 8215, 8312, 8406, 8498, 8588, 8675, 8759, 8841, 8920,
       8996, 9070, 9141, 9210, 9275, 9338, 9399, 9456, 9511, 9562, 9611, 9657,
       9701, 9741, 9778, 9813, 9845, 9873, 9899, 9922, 9942, 9959, 9973, 9984,
       9993, 9998, 10000, 9999, 9995, 9989, 9979, 9967, 9951, 9933, 9911, 9887,
       9859, 9829, 9796, 9760, 9721, 9679, 9635, 9587, 9537, 9484, 9428, 9369,
       9307, 9243, 9176, 9106, 9034, 8958, 8881, 8800, 8717, 8631, 8543, 8452,
       8359, 8264, 8165, 8065, 7962, 7856, 7749, 7639, 7527, 7412, 7296, 7177,
       7056, 6933, 6808, 6681, 6552, 6421, 6288, 6153, 6016, 5878, 5738, 5596,
       5452, 5307, 5161, 5012, 4863, 4712, 4559, 4405, 4250, 4094, 3936, 3777,
       3617, 3456, 3294, 3131, 2967, 2802, 2637, 2470, 2303, 2135, 1967, 1798,
       1628, 1458, 1287, 1117, 945, 774, 602, 430, 258, 86, -86, -258,
       -430, -602, -774, -945, -1117, -1287, -1458, -1628, -1798, -1967, -2135, -2303,
       -2470, -2637, -2802, -2967, -3131, -3294, -3456, -3617, -3777, -3936, -4094, -4250,
       -4405, -4559, -4712, -4863, -5012, -5161, -5307, -5452, -5596, -5738, -5878, -6016,
       -6153, -6288, -6421, -6552, -6681, -6808, -6933, -7056, -7177, -7296, -7412, -7527,
       -7639, -7749, -7856, -7962, -8065, -8165, -8264, -8359, -8452, -8543, -8631, -8717,
       -8800, -8881, -8958, -9034, -9106, -9176, -9243, -9307, -9369, -9428, -9484, -9537,
       -9587, -9635, -9679, -9721, -9760, -9796, -9829, -9859, -9887, -9911, -9933, -9951,
       -9967, -9979, -9989, -9995, -9999, -10000, -9998, -9993, -9984, -9973, -9959, -9942,
       -9922, -9899, -9873, -9845, -9813
    >>

ExpTable ==
    <<
       2, 2, 2, 2, 3, 3, 3, 4, 4, 5, 5, 6,
       6, 7, 8, 9, 10, 11, 12, 13, 15, 16, 18, 20,
       22, 24, 27, 29, 32, 35, 39, 42, 46, 51, 56, 61,
       66, 73, 79, 86, 94, 102, 111, 121, 131, 142, 154, 167,
       181, 195, 211, 228, 246, 265, 286, 307, 331, 356, 382, 410,
       439, 471, 504, 539, 576, 616, 657, 701, 747, 796, 847, 900,
       956, 1015, 1077, 1142, 1209, 1280, 1353, 1430, 1510, 1593, 1680, 1770,
       1863, 1959, 2059, 2163, 2270, 2380, 2494, 2611, 2731, 2855, 2982, 3113,
       3247, 3383, 3523, 3666, 3812, 3960, 4111, 4265, 4420, 4578, 4738, 4900,
       5063, 5228, 5394, 5561, 5729, 5897, 6065, 6234, 6402, 6570, 6736, 6902,
       7066, 7229, 7390, 7548, 7704, 7857, 8007, 8154, 8297, 8435, 8570, 8700,
       8825, 8945, 9060, 9169, 9272, 9369, 9460, 9544, 9622, 9692, 9756, 9813,
       9862, 9904, 9938, 9965, 9985, 9996, 10000, 9996, 9985, 9965, 9938, 9904,
       9862, 9813, 9756, 9692, 9622, 9544, 9460, 9369, 9272, 9169, 9060, 8945,
       8825, 8700, 8570, 8435, 8297, 8154, 8007, 7857, 7704, 7548, 7390, 7229,
       7066, 6902, 6736, 6570, 6402, 6234, 6065, 5897, 5729, 5561, 5394, 5228,
       5063, 4900, 4738, 4578, 4420, 4265, 4111, 3960, 3812, 3666, 3523, 3383,
       3247, 3113, 2982, 2855, 2731, 2611, 2494, 2380, 2270, 2163, 2059, 1959,
       1863, 1770, 1680, 1593, 1510, 1430, 1353, 1280, 1209, 1142, 1077, 1015,
       956, 900, 847, 796, 747, 701, 657, 616, 576, 539, 504, 471,
       439, 410, 382, 356, 331, 307, 286, 265, 246, 228, 211, 195,
       181, 167, 154, 142, 131, 121, 111, 102, 94, 86, 79, 73,
       66, 61, 56, 51, 46, 42, 39, 35, 32, 29, 27, 24,
       22, 20, 18, 16, 15, 13, 12, 11, 10, 9, 8, 7
    >>

(***************************************************************************)
(* Environmental factors, in 1/10000.                                      *)
(***************************************************************************)
\* math.sin(2 * math.pi * (day_of_year - 80) / 365), in 1/10000
Sin(dt) == SinTable[DayOfYear(dt)]

get_seasonal_factor(dt) ==
    3000 + MulDiv(5000 + MulDiv(Sin(dt), 5, 10), 7, 10)

\* heating factor in 1/10
get_heating_factor(dt) ==
    LET m == DtMonth(dt) IN
    IF m \in {12, 1, 2} THEN 10
    ELSE IF m \in {3, 11} THEN 6
    ELSE IF m \in {4, 10} THEN 3
    ELSE 1

\* cooling factor in 1/8: max(0, 1 - abs(h - 16) / 8)
get_cooling_factor(dt) ==
    LET m == DtMonth(dt)
        h == DtHour(dt)
    IN IF m \in {6, 7, 8} /\ 12 <= h /\ h <= 22
       THEN Max(0, 8 - Abs(h - 16))
       ELSE 0

(***************************************************************************)
(* SmoothValue                                                             *)
(***************************************************************************)
SmoothValue(initial, smoothing) == [value |-> initial, smoothing |-> smoothing]

\* Mutant of SmoothUpdate: the old value is not scaled by the coefficient.
SmoothUpdateUnscaled(sv, target) ==
    (2 * (sv.value * 100 + target * (100 - sv.smoothing)) + 100) \div 200

\* value * smoothing + target * (1 - smoothing)
SmoothUpdate(sv, target) ==
    (2 * (sv.value * sv.smoothing + target * (100 - sv.smoothing)) + 100) \div 200

Updated(sv, target) == [sv EXCEPT !.value = SmoothUpdate(sv, target)]

\* The smoothers both generators build at the start of a run (W * 1000).
InitialSmoothers ==
    [solar        |-> SmoothValue(0, 92),
     battery      |-> SmoothValue(0, 88),
     grid         |-> SmoothValue(1000000, 85),
     heat_pump    |-> SmoothValue(500000, 90),
     induction    |-> SmoothValue(0, 70),
     water_heater |-> SmoothValue(0, 80),
     ac           |-> SmoothValue(0, 90),
     lighting     |-> SmoothValue(50000, 85),
     washing      |-> SmoothValue(0, 75),
     ev           |-> SmoothValue(0, 95)]

(***************************************************************************)
(* calculate_power: the targets                                            *)
(***************************************************************************)
\* Mutant of HeatPumpTarget: the day and the night power exchanged.
HeatPumpTargetSwapped(dt) ==
    ((IF 6 <= DtHour(dt) /\ DtHour(dt) <= 21 THEN 600000 ELSE 1200000)
        * get_heating_factor(dt)) \div 10

HeatPumpTarget(dt) ==
    ((IF 6 <= DtHour(dt) /\ DtHour(dt) <= 21 THEN 1200000 ELSE 600000)
        * get_heating_factor(dt)) \div 10

InductionTarget(dt) ==
    LET h == DtHour(dt)
        m == DtMinute(dt)
    IN IF h = 7 /\ 20 <= m /\ m <= 50 THEN 1200000
       ELSE IF h = 12 /\ m <= 40 THEN 1500000
       ELSE IF h \in {18, 19} /\ ((h = 18 /\ m >= 30) \/ (h = 19 /\ m <= 30))
            THEN 2000000
       ELSE 0

WaterHeaterTarget(dt) ==
    IF DtHour(dt) \in {6, 7, 8, 19, 20, 21} THEN 1200000 ELSE 80000

\* 1500 * cooling
AcTarget(dt) == (1500000 * get_cooling_factor(dt)) \div 8

LightingTarget(dt) ==
    LET h == DtHour(dt) IN
    IF 18 <= h /\ h <= 23 THEN 200000
    ELSE IF 6 <= h /\ h <= 8 THEN 120000
    ELSE 30000

WashingTarget(dt) ==
    LET wd == DtWeekday(dt)
        h == DtHour(dt)
    IN IF (wd >= 5 /\ h \in {10, 11, 14, 15})
          \/ (wd < 5 /\ h = 19 /\ DtMinute(dt) <= 30)
       THEN 800000
       ELSE 0

EvTarget(dt) == IF DtHour(dt) \in {23, 0, 1, 2, 3, 4} THEN 3500000 ELSE 0

base_load == 150000

\* Mutant of SolarDark: the evening bound one hour late.
SolarDarkLate(dt) ==
    \/ dt % MinutesPerDay < 6 * MinutesPerHour
    \/ dt % MinutesPerDay > 21 * MinutesPerHour

\* hour = dt.hour + dt.minute / 60, compared in minutes of the day
SolarDark(dt) ==
    \/ dt % MinutesPerDay < 6 * MinutesPerHour
    \/ dt % MinutesPerDay > 20 * MinutesPerHour

\* math.exp(-((hour - 12.5) ** 2) / 18), in 1/10000, on the 5-minute grid
SolarFactor(dt) == Max(0, ExpTable[(dt % MinutesPerDay) \div 5 + 1])

\* 6000 * seasonal * solar_factor
SolarTarget(dt) ==
    IF SolarDark(dt) THEN 0
    ELSE (2 * (6 * get_seasonal_factor(dt) * SolarFactor(dt)) + 100) \div 200

BatteryTarget(dt, solar, total_consumption) ==
    LET solar_excess == Max(0, solar - total_consumption)
        solar_deficit == Max(0, total_consumption - solar)
        h == DtHour(dt)
    IN IF solar_excess > 500000
          THEN -Min(2500000, MulDiv(solar_excess, 8, 10))
       ELSE IF solar_deficit > 500000 /\ 17 <= h /\ h <= 22
          THEN Min(1500000, MulDiv(solar_deficit, 6, 10))
       ELSE IF solar_deficit > 0 /\ (h >= 22 \/ h < 6)
          THEN Min(300000, MulDiv(solar_deficit, 3, 10))
       ELSE 0

TotalConsumption(s) ==
    s.heat_pump.value + s.induction.value + s.water_heater.value + s.ac.value
        + s.lighting.value + s.washing.value + s.ev.value + base_load

\* Mutant of Grid: all the solar output subtracted, not only the part used.
GridAllSolar(total_consumption, solar, battery) ==
    total_consumption - solar - Max(0, battery)

Grid(total_consumption, solar, battery) ==
    LET solar_used == Min(solar, total_consumption)
        battery_discharge == Max(0, battery)
    IN total_consumption - solar_used - battery_discharge

(***************************************************************************)
(* Sensor catalogs, in the order of ENERGY_SENSORS and POWER_SENSORS       *)
(* (ids without the "sensor.demo_boneio_" prefix).                         *)
(***************************************************************************)
ENERGY_SENSORS ==
    <<"solar_production", "battery_energy_in", "battery_energy_out",
      "grid_consumption", "grid_return", "heat_pump_energy",
      "induction_energy", "water_heater_energy", "ac_energy",
      "lighting_energy", "washing_energy", "ev_energy",
      "water_total", "water_house", "water_garden">>

POWER_SENSORS ==
    <<"solar_power", "battery_power", "grid_power", "heat_pump_power",
      "induction_power", "water_heater_power", "ac_power", "lighting_power",
      "washing_power", "ev_power">>

Range(seq) == {seq[k] : k \in 1..Len(seq)}

\* ensure_metadata: every sensor of the catalog gets a distinct row id.
MetaId(sensor_id) ==
    LET all == ENERGY_SENSORS \o POWER_SENSORS
    IN CHOOSE k \in 1..Len(all) : all[k] = sensor_id

None == "None"

(***************************************************************************)
(* calculate_power: returns the power dict and the updated smoothers.      *)
(***************************************************************************)
calculate_power(dt, smoothers0) ==
    LET s1 == [smoothers0 EXCEPT
                 !.heat_pump    = Updated(@, HeatPumpTarget(dt)),
                 !.induction    = Updated(@, InductionTarget(dt)),
                 !.water_heater = Updated(@, WaterHeaterTarget(dt)),
                 !.ac           = Updated(@, AcTarget(dt)),
                 !.lighting     = Updated(@, LightingTarget(dt)),
                 !.washing      = Updated(@, WashingTarget(dt)),
                 !.ev           = Updated(@, EvTarget(dt))]
        total_consumption == TotalConsumption(s1)
        s2 == [s1 EXCEPT !.solar = Updated(@, SolarTarget(dt))]
        solar == s2.solar.value
        s3 == [s2 EXCEPT
                 !.battery = Updated(@, BatteryTarget(dt, solar, total_consumption))]
        battery == s3.battery.value
    IN [smoothers |-> s3,
        power |->
          [solar_power        |-> solar,
           battery_power      |-> Max(0, battery),
           battery_raw        |-> battery,
           grid_power         |-> Grid(total_consumption, solar, battery),
           heat_pump_power    |-> s3.heat_pump.value,
           induction_power    |-> s3.induction.value,
           water_heater_power |-> s3.water_heater.value,
           ac_power           |-> s3.ac.value,
           lighting_power     |-> s3.lighting.value,
           washing_power      |-> s3.washing.value,
           ev_power           |-> s3.ev.value]]

\* watts / 1000
ToKwh(p) == MulDiv(p, 1, 1000)

\* Mutant of calculate_energy: the grid import without its max(0, ...).
calculate_energy_signed(power) ==
    [solar_production    |-> ToKwh(power.solar_power),
     battery_energy_in   |-> ToKwh(Max(0, -power.battery_raw)),
     battery_energy_out  |-> ToKwh(Max(0, power.battery_power)),
     grid_consumption    |-> ToKwh(power.grid_power),
     grid_return         |-> ToKwh(Max(0, -power.grid_power)),
     heat_pump_energy    |-> ToKwh(power.heat_pump_power),
     induction_energy    |-> ToKwh(power.induction_power),
     water_heater_energy |-> ToKwh(power.water_heater_power),
     ac_energy           |-> ToKwh(power.ac_power),
     lighting_energy     |-> ToKwh(power.lighting_power),
     washing_energy      |-> ToKwh(power.washing_power),
     ev_energy           |-> ToKwh(power.ev_power)]

calculate_energy(power) ==
    [solar_production    |-> ToKwh(power.solar_power),
     battery_energy_in   |-> ToKwh(Max(0, -power.battery_raw)),
     battery_energy_out  |-> ToKwh(Max(0, power.battery_power)),
     grid_consumption    |-> ToKwh(Max(0, power.grid_power)),
     grid_return         |-> ToKwh(Max(0, -power.grid_power)),
     heat_pump_energy    |-> ToKwh(power.heat_pump_power),
     induction_energy    |-> ToKwh(power.induction_power),
     water_heater_energy |-> ToKwh(power.water_heater_power),
     ac_energy           |-> ToKwh(power.ac_power),
     lighting_energy     |-> ToKwh(power.lighting_power),
     washing_energy      |-> ToKwh(power.washing_power),
     ev_energy           |-> ToKwh(power.ev_power)]

calculate_water(dt) ==
    LET h == DtHour(dt)
        m == DtMonth(dt)
        house == IF 7 <= h /\ h <= 9 THEN 18000
                 ELSE IF 18 <= h /\ h <= 21 THEN 13000
                 ELSE 2500
        summer == m \in {5, 6, 7, 8, 9}
        watering == h \in {6, 7, 19, 20}
        garden == IF summer /\ watering THEN 25000 ELSE 0
    IN [water_total  |-> house + garden,
        water_house  |-> house,
        water_garden |-> garden]

(***************************************************************************)
(* The generators.                                                         *)
(*                                                                         *)
(* gen      which generator is (or was last) running                       *)
(* pc       "idle": nothing called yet; "loop": inside the while loop;     *)
(*          "returned": the call returned stats; "raised": it raised error *)
(* start, end, current, smoothers, sums, stats, total, i: the locals of    *)
(*          the running call                                               *)
(* power    the dict the last calculate_power call returned                *)
(* runs     number of generator calls made so far in this process          *)
(* results  the list each generator returned the last time it was called   *)
(*          before the present call (what the caller holds)                *)
(***************************************************************************)
VARIABLES gen, pc, start, end, current, smoothers, sums, stats, total, i,
          error, power, runs, results

vars == <<gen, pc, start, end, current, smoothers, sums, stats, total, i,
          error, power, runs, results>>

\* sums = {k: 0 for k in meta_ids.keys()}
ZeroSums == [k \in Range(ENERGY_SENSORS) |-> 0]

\* Mutant of NewSums: the totals of the call before are kept.
ReusedSums == sums

NewSums == ZeroSums

\* Mutant of NewSmoothers: the smoothers of the call before are kept.
ReusedSmoothers == smoothers

NewSmoothers == InitialSmoothers

\* int((end - start).total_seconds() / 3600), .../ 300
RangeTotal(s, e, step) == TruncDiv(e - s, step)

\* Mutant of LoopGuard: the end instant included.
LoopGuardInclusive(cur, e) == cur <= e

\* Mutant of LoopGuard: the loop runs until current meets end.
LoopGuardUnequal(cur, e) == cur /= e

\* while current < end
LoopGuard(cur, e) == cur < e

\* print(f"... ({100*i//total}%)") every `every` iterations
ProgressError(n, tot, every) ==
    IF n % every = 0 /\ tot = 0 THEN "ZeroDivisionError" ELSE "none"

EnergyRow(ts, sensor_id, value, sum) ==
    [created_ts |-> ts, metadata_id |-> MetaId(sensor_id), start_ts |-> ts,
     mean |-> None, min |-> None, max |-> None, last_reset_ts |-> None,
     state |-> value, sum |-> sum]

\* mean * 0.95, mean * 1.05
SyntheticMin(mean) == MulDiv(mean, 95, 100)
SyntheticMax(mean) == MulDiv(mean, 105, 100)

PowerRow(ts, sensor_id, mean) ==
    [created_ts |-> ts, metadata_id |-> MetaId(sensor_id), start_ts |-> ts,
     mean |-> mean, min |-> SyntheticMin(mean), max |-> SyntheticMax(mean),
     last_reset_ts |-> None, state |-> None]

\* The value of one series at one hourly tick: energy first, then water.
EnergyValue(sensor_id, energy, water) ==
    IF sensor_id \in DOMAIN energy THEN energy[sensor_id] ELSE water[sensor_id]

\* Before the first calculate_power call of a run there is no power dict.
NoPower ==
    [solar_power |-> 0, battery_power |-> 0, battery_raw |-> 0, grid_power |-> 0,
     heat_pump_power |-> 0, induction_power |-> 0, water_heater_power |-> 0,
     ac_power |-> 0, lighting_power |-> 0, washing_power |-> 0, ev_power |-> 0]

NoResult == [returned |-> FALSE, stats |-> <<>>]

Init ==
    /\ gen = "none"
    /\ pc = "idle"
    /\ start = 0
    /\ end = 0
    /\ current = 0
    /\ smoothers = InitialSmoothers
    /\ sums = ZeroSums
    /\ stats = <<>>
    /\ total = 0
    /\ i = 0
    /\ error = "none"
    /\ power = NoPower
    /\ runs = 0
    /\ results = [energy |-> NoResult, power |-> NoResult]

\* A generator is called: the first call with any range, a later call of
\* the same process with the range of the call before it.
Call(g, s, e, step) ==
    /\ pc \in {"idle", "returned"}
    /\ runs < MaxRuns
    /\ pc = "returned" => (s = start /\ e = end)
    /\ results' = IF pc = "returned"
                  THEN [results EXCEPT ![gen] = [returned |-> TRUE, stats |-> stats]]
                  ELSE results
    /\ gen' = g
    /\ pc' = "loop"
    /\ start' = s
    /\ end' = e
    /\ stats' = <<>>
    /\ current' = s
    /\ sums' = NewSums
    /\ smoothers' = NewSmoothers
    /\ total' = RangeTotal(s, e, step)
    /\ i' = 0
    /\ error' = "none"
    /\ power' = NoPower
    /\ runs' = runs + 1

\* timedelta(hours=1), in minutes
one_hour == 60

\* Mutant of interval: ten minutes.
interval_doubled == 2 * 5

\* interval = timedelta(minutes=5)
interval == 5

generate_energy_statistics(s, e) == Call("energy", s, e, one_hour)

generate_power_statistics(s, e) == Call("power", s, e, interval)

\* One iteration of generate_energy_statistics' loop.
EnergyTick ==
    /\ pc = "loop"
    /\ gen = "energy"
    /\ LoopGuard(current, end)
    /\ LET r == calculate_power(current, smoothers)
           energy == calculate_energy(r.power)
           water == calculate_water(current)
           ts == Timestamp(current)
           newSums == [k \in DOMAIN sums |->
                          sums[k] + EnergyValue(k, energy, water)]
       IN /\ smoothers' = r.smoothers
          /\ power' = r.power
          /\ sums' = newSums
          /\ stats' = stats \o
                [n \in 1..Len(ENERGY_SENSORS) |->
                    EnergyRow(ts, ENERGY_SENSORS[n],
                              EnergyValue(ENERGY_SENSORS[n], energy, water),
                              newSums[ENERGY_SENSORS[n]])]
    /\ current' = current + one_hour
    /\ i' = i + 1
    /\ error' = ProgressError(i + 1, total, 2000)
    /\ pc' = IF error' = "none" THEN "loop" ELSE "raised"
    /\ UNCHANGED <<gen, start, end, total, runs, results>>

\* One iteration of generate_power_statistics' loop.
PowerTick ==
    /\ pc = "loop"
    /\ gen = "power"
    /\ LoopGuard(current, end)
    /\ LET r == calculate_power(current, smoothers)
           ts == Timestamp(current)
       IN /\ smoothers' = r.smoothers
          /\ power' = r.power
          /\ stats' = stats \o
                [n \in 1..Len(POWER_SENSORS) |->
                    PowerRow(ts, POWER_SENSORS[n], r.power[POWER_SENSORS[n]])]
    /\ current' = current + interval
    /\ i' = i + 1
    /\ error' = ProgressError(i + 1, total, 5000)
    /\ pc' = IF error' = "none" THEN "loop" ELSE "raised"
    /\ UNCHANGED <<gen, start, end, sums, total, runs, results>>

\* The loop condition fails: return stats.
Return ==
    /\ pc = "loop"
    /\ ~LoopGuard(current, end)
    /\ pc' = "returned"
    /\ UNCHANGED <<gen, start, end, current, smoothers, sums, stats, total, i,
                   error, power, runs, results>>

(***************************************************************************)
(* Inputs.                                                                 *)
(***************************************************************************)
\* Monday 1 January, Saturday 14 April, Monday 2 July, Monday 31 December.
StartDays == {0, 103, 182, 364}
StartHours == {0, 5, 17, 20}
Starts == {d * MinutesPerDay + h * MinutesPerHour : d \in StartDays, h \in StartHours}

\* Ranges of up to n steps: empty and inverted ones, ends on the grid and
\* one minute past it.
Durations(step, n) ==
    {-step, -1} \cup {step * k : k \in 0..n} \cup {step * k + 1 : k \in 0..(n - 1)}

\* A full day from local midnight.
FullDay(s) == IF s % MinutesPerDay = 0 THEN {MinutesPerDay} ELSE {}

\* The 5-minute generator runs a full day on 1 January only.
FullDayPower(s) == IF s = 0 THEN {MinutesPerDay} ELSE {}

CallEnergy ==
    \E s \in Starts : \E d \in Durations(one_hour, MaxHours) \cup FullDay(s) :
        generate_energy_statistics(s, s + d)

CallPower ==
    \E s \in Starts : \E d \in Durations(interval, MaxIntervals) \cup FullDayPower(s) :
        generate_power_statistics(s, s + d)

Next == CallEnergy \/ CallPower \/ EnergyTick \/ PowerTick \/ Return

Spec == Init /\ [][Next]_vars

(***************************************************************************)
(* Properties.                                                             *)
(***************************************************************************)
NumEnergy == Len(ENERGY_SENSORS)
NumPower == Len(POWER_SENSORS)

Called == pc /= "idle"

\* The consumption of the last calculate_power call, from its outputs:
\* the seven appliance outputs plus the 150 W base load.
C1_Consumption ==
    power.heat_pump_power + power.induction_power + power.water_heater_power
        + power.ac_power + power.lighting_power + power.washing_power
        + power.ev_power + 150000

\* C1: the values returned by every calculate_power call satisfy
\* grid + min(solar, total_consumption) + max(battery_raw, 0) =
\* total_consumption, where total_consumption is the sum of the seven
\* appliance outputs of that call plus the 150 W base load.
C1_EnergyBalance ==
    i > 0 =>
        power.grid_power + Min(power.solar_power, C1_Consumption)
            + Max(power.battery_raw, 0) = C1_Consumption

\* A call whose solar output exceeds the consumption while the battery
\* still discharges.
C1_Witness ==
    /\ i > 0
    /\ power.solar_power > C1_Consumption
    /\ power.battery_raw > 0

\* The instant a row's timestamp stands for.
InstantOf(ts) == ts \div 60

\* The claim's dark hours: local hour < 6 or > 20.
C2_Dark(dt) == DtHour(dt) < 6 \/ DtHour(dt) > 20

C2_IsSolar(row) ==
    row.metadata_id \in {MetaId("solar_production"), MetaId("solar_power")}

C2_Value(row) == IF gen = "power" THEN row.mean ELSE row.state

\* C2 as stated: every solar row of a dark instant carries exactly zero.
C2_SolarZeroWhenDark ==
    \A k \in 1..Len(stats) :
        (C2_IsSolar(stats[k]) /\ C2_Dark(InstantOf(stats[k].start_ts)))
            => C2_Value(stats[k]) = 0

\* C2 amended: at a dark instant the solar target is zero, so the solar
\* output of the tick is the smoother's previous value times its
\* coefficient 0.92 (never above the previous value), and the solar row
\* of the tick carries that output.
C2_SolarDecaysWhenDark ==
    [][(pc = "loop" /\ i' = i + 1 /\ C2_Dark(current)) =>
          /\ power'.solar_power = MulDiv(smoothers.solar.value, 92, 100)
          /\ power'.solar_power <= smoothers.solar.value
          /\ C2_IsSolar(stats'[Len(stats) + 1])
          /\ stats'[Len(stats) + 1].start_ts = Timestamp(current)
          /\ C2_Value(stats'[Len(stats) + 1])
               = IF gen = "power" THEN power'.solar_power
                 ELSE MulDiv(power'.solar_power, 1, 1000)]_vars

\* A 5-minute row of a dark instant with a positive solar output.
C2_Witness ==
    /\ gen = "power"
    /\ \E k \in 1..Len(stats) :
          /\ C2_IsSolar(stats[k])
          /\ C2_Dark(InstantOf(stats[k].start_ts))
          /\ stats[k].mean > 0

\* C3: in one generate_energy_statistics run, the sum of each row is at
\* least the sum of the previous row of the same series (the row one tick
\* before it).
C3_SumsNonDecreasing ==
    gen = "energy" =>
        \A k \in (NumEnergy + 1)..Len(stats) :
            /\ stats[k].metadata_id = stats[k - NumEnergy].metadata_id
            /\ stats[k].start_ts > stats[k - NumEnergy].start_ts
            /\ stats[k].sum >= stats[k - NumEnergy].sum

\* A run in which the grid import stands still (the grid exports) while
\* the solar production grows.
C3_Witness ==
    /\ gen = "energy"
    /\ power.grid_power < 0
    /\ Len(stats) > NumEnergy
    /\ LET last == Len(stats) - NumEnergy
       IN /\ stats[last + 4].sum = stats[last + 4 - NumEnergy].sum
          /\ stats[last + 1].sum > stats[last + 1 - NumEnergy].sum

\* C4: the running totals start from zero in every run: the first row of
\* a series has sum = its value, every later row has sum = the previous
\* row's sum + its value.
C4_SumsStartFromZero ==
    gen = "energy" =>
        \A k \in 1..Len(stats) :
            stats[k].sum = stats[k].state
                + (IF k <= NumEnergy THEN 0 ELSE stats[k - NumEnergy].sum)

\* A second hourly run, after a first one that left positive totals.
C4_Witness ==
    /\ gen = "energy"
    /\ runs = 2
    /\ results.energy.returned
    /\ Len(results.energy.stats) > NumEnergy
    /\ Len(stats) > NumEnergy
    /\ stats[1].sum > 0

\* C5: a generator called again with the same start and end returns the
\* row sequence it returned before, value for value.
C5_Deterministic ==
    (pc = "returned" /\ results[gen].returned) => stats = results[gen].stats

\* The second of two calls of the same generator returned rows.
C5_Witness ==
    /\ pc = "returned"
    /\ results[gen].returned
    /\ Len(stats) > NumEnergy
    /\ power.solar_power > 0

\* The heat-pump energy of hour h in a returned hourly day.
C6_HeatPump(h) == stats[NumEnergy * h + 6].state

C6_WinterDay ==
    /\ pc = "returned"
    /\ gen = "energy"
    /\ DtMonth(start) \in {12, 1, 2}
    /\ start % MinutesPerDay = 0
    /\ end = start + MinutesPerDay

\* C6 as stated: every value of hours 6..21 is above every value of hours
\* 0..5 and 22..23.
C6_DayAboveNight ==
    C6_WinterDay =>
        \A a \in 6..21 : \A b \in (0..5) \cup {22, 23} :
            C6_HeatPump(a) > C6_HeatPump(b)

\* C6 amended: every value of hours 6..21 is above every value of hours
\* 0..5; the values of hours 22 and 23 fall below the value of hour 21 and
\* stay above the value of hour 6.
C6_DayAboveEarlyNight ==
    C6_WinterDay =>
        /\ \A k \in 0..23 :
              /\ stats[NumEnergy * k + 6].metadata_id = MetaId("heat_pump_energy")
              /\ stats[NumEnergy * k + 6].start_ts = Timestamp(start + 60 * k)
        /\ \A a \in 6..21 : \A b \in 0..5 : C6_HeatPump(a) > C6_HeatPump(b)
        /\ \A b \in {22, 23} :
              /\ C6_HeatPump(b) < C6_HeatPump(21)
              /\ C6_HeatPump(b) > C6_HeatPump(6)

C6_Witness == C6_WinterDay /\ Len(stats) = 24 * NumEnergy

\* C7: every row of generate_power_statistics has max >= mean >= min.
C7_MinMeanMax ==
    gen = "power" =>
        \A k \in 1..Len(stats) :
            stats[k].max >= stats[k].mean /\ stats[k].mean >= stats[k].min

\* C8: generate_power_statistics emits, for each of the 10 series, one row
\* per instant start + k * 5 min before end and no other row, in increasing
\* time order; 288 rows per series for a 24-hour range.
C8_OneRowPerInstant ==
    gen = "power" =>
        /\ Len(stats) = NumPower * i
        /\ \A k \in 1..Len(stats) :
              LET t == start + 5 * ((k - 1) \div NumPower)
              IN /\ stats[k].start_ts = Timestamp(t)
                 /\ stats[k].metadata_id = MetaId(POWER_SENSORS[((k - 1) % NumPower) + 1])
                 /\ t < end
        /\ pc = "returned" => start + 5 * i >= end
        /\ (pc = "returned" /\ end = start + 24 * 60) => Len(stats) = 288 * NumPower

\* A returned 5-minute run over 24 hours.
C8_Witness ==
    /\ gen = "power"
    /\ pc = "returned"
    /\ end = start + 24 * 60
    /\ Len(stats) = 2880

\* C9: with end = start either generator returns an empty sequence and
\* raises nothing.
C9_EmptyRange ==
    (Called /\ end = start) =>
        /\ pc \in {"loop", "returned"}
        /\ error = "none"
        /\ stats = <<>>

C9_Witness == pc = "returned" /\ end = start /\ gen = "power" /\ total = 0

\* C10 as stated: a call with end <= start fails with an invalid-range
\* error.
C10_InvalidRangeRejected ==
    (Called /\ end <= start) => (pc = "raised" /\ error = "InvalidRange")

\* C10 amended: a call with end <= start is not rejected: no error is
\* raised, the loop body never runs and the empty sequence is returned.
C10_InvalidRangeEmpty ==
    (Called /\ end <= start) =>
        /\ pc \in {"loop", "returned"}
        /\ error = "none"
        /\ i = 0
        /\ stats = <<>>

C10_Witness == pc = "returned" /\ end < start /\ gen = "energy" /\ total < 0

\* The appliance smoothers of calculate_power.
C11_Appliances ==
    {"heat_pump", "induction", "water_heater", "ac", "lighting", "washing", "ev"}

\* C11: from the generators' initial smoother values, after any sequence
\* of calculate_power calls the raw battery value is within
\* [-2500 W, 1500 W] and the solar output and the seven appliance outputs
\* are >= 0, in the smoothers and in the dict of the last call.
C11_SmoothersInRange ==
    /\ smoothers.battery.value >= -2500000
    /\ smoothers.battery.value <= 1500000
    /\ smoothers.solar.value >= 0
    /\ \A a \in C11_Appliances : smoothers[a].value >= 0
    /\ i > 0 =>
          /\ power.battery_raw = smoothers.battery.value
          /\ power.solar_power = smoothers.solar.value
          /\ power.heat_pump_power >= 0
          /\ power.induction_power >= 0
          /\ power.water_heater_power >= 0
          /\ power.ac_power >= 0
          /\ power.lighting_power >= 0
          /\ power.washing_power >= 0
          /\ power.ev_power >= 0

\* An hourly run whose battery discharged in an earlier hour (a positive
\* raw value) and is charging after the last call (a negative raw value).
C11_Witness ==
    /\ gen = "energy"
    /\ i > 0
    /\ power.battery_raw < 0
    /\ power.solar_power > 0
    /\ \E k \in 1..Len(stats) :
          /\ stats[k].metadata_id = MetaId("battery_energy_out")
          /\ stats[k].state > 0

====
